---- MODULE Spec2Model ----
(***************************************************************************)
(* A model of the file-system system-call layer of sysfile.c.  Every       *)
(* handler (sys_open, sys_link, ...) is one operator from a kernel state   *)
(* to a kernel state, translated statement by statement; the action of a   *)
(* handler applies it to the current state.  The primitives of fs.c,       *)
(* file.c, log.c and pipe.c that sysfile.c calls (namei, dirlookup,        *)
(* dirlink, ialloc, iput, filealloc, fileclose, ...) are modelled at their *)
(* interface.  Spec makes any calls from the state after boot; SpecChain   *)
(* starts from a chain of symbolic links; SpecLink makes longer runs of    *)
(* create, link and unlink; SpecFile makes longer runs of the calls that   *)
(* allocate, share and close open files.                                   *)
(*                                                                         *)
(* A path or a link target is a sequence of one-character strings, so that *)
(* strlen, safestrcpy and the parsing of '/' act on it as on a C string.   *)
(***************************************************************************)
EXTENDS Integers, Sequences, FiniteSets, TLC

VARIABLES inodes, dirs, tags, ofile, ftable, cwd, ubuf, held, txn, panicked,
          steps, last

vars == <<inodes, dirs, tags, ofile, ftable, cwd, ubuf, held, txn, panicked,
          steps, last>>

(***************************************************************************)
(* Bounds of the model and constants of the program.                       *)
(***************************************************************************)
\* inodes of the disk, NOFILE/NFILE/MAX_LNK_NAME scaled down
NINODES == 3
NOFILE == 2
NFILE == 2
MAX_LNK_NAME == 3
\* system calls in one run of Spec, of SpecChain, of SpecLink and of
\* SpecFile, and the symlinks of the chain SpecChain starts from
MaxSteps == 3
ChainSteps == 2
LinkSteps == 4
FileSteps == 5
MaxChain == 17

\* the bound of the symlink-following loops: for (i=0; i < 16; i++)
MAXHOPS == 16

ROOTINO == 1
T_DIR == 1
T_FILE == 2
T_DEV == 3
O_RDONLY == 0
O_WRONLY == 1
O_RDWR == 2
O_CREATE == 512

Min(a, b) == IF a < b THEN a ELSE b

\* the prefix of at most n characters of s
Take(s, n) == SubSeq(s, 1, Min(n, Len(s)))

\* safestrcpy(s, t, n): t cut to n-1 characters, s left alone when n <= 0
safestrcpy(s, t, n) == IF n <= 0 THEN s ELSE Take(t, n - 1)

\* x & bit, for bit a power of two
BitAnd(x, bit) == (x \div bit) % 2

(***************************************************************************)
(* The kernel state as one record, which the handlers transform.           *)
(*   inodes[i] : type (0 free), nlink, major, minor, symlnk (I_SYMLNK),    *)
(*               addrs (the inline target), ref (in-memory references)     *)
(*   dirs[i]   : the directory entries of inode i, inum 0 a free slot      *)
(*   ofile     : the process's descriptor table, 0 a free slot             *)
(*   ftable[f] : ref (0 free), type, ip, readable, writable                *)
(*   held      : inodes whose lock the thread holds                        *)
(*   txn       : transactions begun and not committed                      *)
(*   ev        : the handler's calls of begin/commit/ilock/..., in order   *)
(***************************************************************************)
Fds == 0..(NOFILE - 1)

FreeInode == [type |-> 0, nlink |-> 0, major |-> 0, minor |-> 0,
              symlnk |-> FALSE, addrs |-> <<>>, ref |-> 0]
FreeFile == [ref |-> 0, type |-> "FD_NONE", ip |-> 0, readable |-> FALSE,
             writable |-> FALSE]

Event(k, tag, x) == [k EXCEPT !.ev = Append(@, <<tag, x>>)]
Return(k, v) == [k EXCEPT !.ret = v]
panic(k, msg) == [Event(k, "panic", msg) EXCEPT !.panic = TRUE, !.ret = -99]

begin_trans(k) == [Event(k, "begin_trans", k.txn) EXCEPT !.txn = @ + 1]
commit_trans(k) == [Event(k, "commit_trans", k.txn) EXCEPT !.txn = @ - 1]

(***************************************************************************)
(* Inode primitives (fs.c).                                                *)
(***************************************************************************)
iget(k, i) == [k EXCEPT !.inodes[i].ref = @ + 1]
ilock(k, i) == [Event(k, "ilock", i) EXCEPT !.held = @ \cup {i}]
iunlock(k, i) == [Event(k, "iunlock", i) EXCEPT !.held = @ \ {i}]
iupdate(k, i) == Event(k, "iupdate", i)

\* iput: drop a reference; the last reference of an inode with no links
\* frees the inode and its content
iput(k, i) ==
  LET e == Event(k, "iput", i) IN
  IF k.inodes[i].ref = 1 /\ k.inodes[i].nlink = 0
  THEN [e EXCEPT !.inodes[i] = FreeInode, !.dirs[i] = <<>>, !.tags[i] = {}]
  ELSE [e EXCEPT !.inodes[i].ref = @ - 1]

iunlockput(k, i) == iput(iunlock(k, i), i)

\* ialloc: the first free inode of the disk, typed and referenced; 0 if none
FreeInums(k) == {i \in DOMAIN k.inodes : k.inodes[i].type = 0}
FirstFree(k) == CHOOSE i \in FreeInums(k) : \A j \in FreeInums(k) : i <= j
ialloc(k, type) ==
  IF FreeInums(k) = {} THEN [k |-> k, ip |-> 0]
  ELSE LET i == FirstFree(k) IN
       [k |-> [k EXCEPT !.inodes[i] = [FreeInode EXCEPT !.type = type, !.ref = 1]],
        ip |-> i]

(***************************************************************************)
(* Directories (fs.c).                                                     *)
(***************************************************************************)
\* the slots of directory dp that hold name
Slots(k, dp, name) ==
  {n \in 1..Len(k.dirs[dp]) : k.dirs[dp][n].inum # 0 /\ k.dirs[dp][n].name = name}
MinOf(S) == CHOOSE n \in S : \A m \in S : n <= m

\* dirlookup: the inode of the first entry named name (referenced) and its
\* slot, ip = 0 if there is none
dirlookup(k, dp, name) ==
  IF Slots(k, dp, name) = {} THEN [k |-> k, ip |-> 0, off |-> 0]
  ELSE LET n == MinOf(Slots(k, dp, name)) IN
       [k |-> iget(k, k.dirs[dp][n].inum), ip |-> k.dirs[dp][n].inum, off |-> n]

\* dirlink: write entry (name, inum) into the first free slot of dp, or
\* append it; -1 if the name is present
EmptySlots(k, dp) == {n \in 1..Len(k.dirs[dp]) : k.dirs[dp][n].inum = 0}
dirlink(k, dp, name, inum) ==
  LET r == dirlookup(k, dp, name)
      de == [name |-> name, inum |-> inum] IN
  IF r.ip # 0 THEN Return(iput(r.k, r.ip), -1)
  ELSE IF EmptySlots(k, dp) # {}
  THEN Return([k EXCEPT !.dirs[dp][MinOf(EmptySlots(k, dp))] = de], 0)
  ELSE Return([k EXCEPT !.dirs[dp] = Append(@, de)], 0)

(***************************************************************************)
(* Path resolution (fs.c: skipelem, namex, namei, nameiparent).            *)
(***************************************************************************)
RECURSIVE SkipSlashes(_)
SkipSlashes(p) ==
  IF p # <<>> /\ Head(p) = "/" THEN SkipSlashes(Tail(p)) ELSE p

RECURSIVE ElemLen(_)
ElemLen(p) == IF p = <<>> \/ Head(p) = "/" THEN 0 ELSE 1 + ElemLen(Tail(p))

\* skipelem: the next path element and the rest, ok = FALSE at the end
skipelem(p) ==
  LET q == SkipSlashes(p) IN
  IF q = <<>> THEN [ok |-> FALSE, name |-> <<>>, rest |-> <<>>]
  ELSE [ok |-> TRUE, name |-> SubSeq(q, 1, ElemLen(q)),
        rest |-> SkipSlashes(SubSeq(q, ElemLen(q) + 1, Len(q)))]

RECURSIVE namex_walk(_, _, _, _)
namex_walk(k, ip, path, parent) ==
  LET e == skipelem(path) IN
  IF ~e.ok
  THEN IF parent THEN [k |-> iput(k, ip), ip |-> 0, name |-> <<>>]
       ELSE [k |-> k, ip |-> ip, name |-> <<>>]
  ELSE IF k.inodes[ip].type # T_DIR
  THEN [k |-> iput(k, ip), ip |-> 0, name |-> <<>>]
  ELSE IF parent /\ e.rest = <<>>
  THEN [k |-> k, ip |-> ip, name |-> e.name]
  ELSE LET r == dirlookup(k, ip, e.name) IN
       IF r.ip = 0 THEN [k |-> iput(k, ip), ip |-> 0, name |-> <<>>]
       ELSE namex_walk(iput(r.k, ip), r.ip, e.rest, parent)

namex(k, path, parent) ==
  LET e == Event(k, IF parent THEN "nameiparent" ELSE "namei", path) IN
  IF path # <<>> /\ Head(path) = "/"
  THEN namex_walk(iget(e, ROOTINO), ROOTINO, path, parent)
  ELSE namex_walk(iget(e, e.cwd), e.cwd, path, parent)

\* namei: the inode path names (referenced, unlocked), ip = 0 if none
namei(k, path) == namex(k, path, FALSE)
\* nameiparent: the parent directory of path and the final element
nameiparent(k, path) == namex(k, path, TRUE)

(***************************************************************************)
(* Open files (file.c, pipe.c) and the descriptor table.                   *)
(***************************************************************************)
\* filealloc: the first file of the table with no reference, f = 0 if none
FreeFiles(k) == {f \in DOMAIN k.ftable : k.ftable[f].ref = 0}
filealloc(k) ==
  IF FreeFiles(k) = {} THEN [k |-> k, f |-> 0]
  ELSE [k |-> [k EXCEPT !.ftable[MinOf(FreeFiles(k))].ref = 1],
        f |-> MinOf(FreeFiles(k))]

filedup(k, f) == [k EXCEPT !.ftable[f].ref = @ + 1]

\* fileclose: drop a reference; the last one frees the file and releases
\* the inode of an FD_INODE file
fileclose(k, f) ==
  IF k.ftable[f].ref > 1 THEN [k EXCEPT !.ftable[f].ref = @ - 1]
  ELSE LET c == [k EXCEPT !.ftable[f] = FreeFile] IN
       IF k.ftable[f].type = "FD_INODE" THEN iput(c, k.ftable[f].ip) ELSE c

\* pipealloc: two files over a new pipe, ok = FALSE if the table is short
pipe_second(b, rf) ==
  IF b.f = 0 THEN [k |-> fileclose(b.k, rf), ok |-> FALSE, rf |-> 0, wf |-> 0]
  ELSE [k |-> [b.k EXCEPT
                 !.ftable[rf] = [ref |-> 1, type |-> "FD_PIPE", ip |-> 0,
                                 readable |-> TRUE, writable |-> FALSE],
                 !.ftable[b.f] = [ref |-> 1, type |-> "FD_PIPE", ip |-> 0,
                                  readable |-> FALSE, writable |-> TRUE]],
        ok |-> TRUE, rf |-> rf, wf |-> b.f]
pipe_first(a) ==
  IF a.f = 0 THEN [k |-> a.k, ok |-> FALSE, rf |-> 0, wf |-> 0]
  ELSE pipe_second(filealloc(a.k), a.f)
pipealloc(k) == pipe_first(filealloc(k))

\* argfd: the file of descriptor fd, 0 if fd is out of range or not open
argfd(k, fd) == IF fd < 0 \/ fd >= NOFILE THEN 0 ELSE k.ofile[fd]

\* fdalloc: install f in the first free slot, fd = -1 if there is none
FreeFds(k) == {fd \in DOMAIN k.ofile : k.ofile[fd] = 0}
fdalloc(k, f) ==
  IF FreeFds(k) = {} THEN [k |-> k, fd |-> -1]
  ELSE [k |-> [k EXCEPT !.ofile[MinOf(FreeFds(k))] = f], fd |-> MinOf(FreeFds(k))]

\* a faulty sys_dup, which installs the descriptor without filedup
dup_fd_nofiledup(d, f) == IF d.fd < 0 THEN Return(d.k, -1) ELSE Return(d.k, d.fd)

\* sys_dup, after fdalloc
dup_fd(d, f) == IF d.fd < 0 THEN Return(d.k, -1) ELSE Return(filedup(d.k, f), d.fd)
sys_dup(k, fd) ==
  IF argfd(k, fd) = 0 THEN Return(k, -1) ELSE dup_fd(fdalloc(k, argfd(k, fd)), argfd(k, fd))

sys_close(k, fd) ==
  IF argfd(k, fd) = 0 THEN Return(k, -1)
  ELSE Return(fileclose([k EXCEPT !.ofile[fd] = 0], argfd(k, fd)), 0)

\* sys_pipe, from its end to its start: after the second fdalloc, after
\* the first, after pipealloc
pipe_fd1(d1, fd0, p) ==
  IF d1.fd < 0
  THEN Return(fileclose(fileclose([d1.k EXCEPT !.ofile[fd0] = 0], p.rf), p.wf), -1)
  ELSE Return(d1.k, 0)
pipe_fd0(d0, p) ==
  IF d0.fd < 0 THEN Return(fileclose(fileclose(d0.k, p.rf), p.wf), -1)
  ELSE pipe_fd1(fdalloc(d0.k, p.wf), d0.fd, p)
pipe_files(p) == IF ~p.ok THEN Return(p.k, -1) ELSE pipe_fd0(fdalloc(p.k, p.rf), p)
sys_pipe(k) == pipe_files(pipealloc(k))

(***************************************************************************)
(* link and unlink.  A handler is a chain of operators, one per stretch of *)
(* the code between two tests of a call's result, written from the end of  *)
(* the handler to its start; each takes the result it tests as a parameter.*)
(* There is one device, so dp->dev != ip->dev is false.                    *)
(***************************************************************************)
\* a faulty bad: label, which returns with the transaction open
link_bad_open(k, ip) ==
  Return(iunlockput(
    iupdate([ilock(k, ip) EXCEPT !.inodes[ip].nlink = @ - 1], ip), ip), -1)

\* a faulty bad: label, without the compensating decrement
link_bad_nodec(k, ip) ==
  Return(commit_trans(iunlockput(iupdate(ilock(k, ip), ip), ip)), -1)

\* the bad: label of sys_link
link_bad(k, ip) ==
  Return(commit_trans(iunlockput(
    iupdate([ilock(k, ip) EXCEPT !.inodes[ip].nlink = @ - 1], ip), ip)), -1)

\* after dirlink(dp, name, ip->inum), its result in k.ret
link_entry(k, dp, ip) ==
  IF k.ret < 0 THEN link_bad(iunlockput(k, dp), ip)
  ELSE Return(commit_trans(iput(iunlockput(k, dp), ip)), 0)

\* after nameiparent(new, name)
link_parent(p, ip) ==
  IF p.ip = 0 THEN link_bad(p.k, ip)
  ELSE link_entry(dirlink(ilock(p.k, p.ip), p.ip, p.name, ip), p.ip, ip)

\* a faulty link_locked, which does not count the new link
link_locked_nocount(k, ip, new) ==
  IF k.inodes[ip].type = T_DIR THEN Return(commit_trans(iunlockput(k, ip)), -1)
  ELSE link_parent(nameiparent(iunlock(iupdate(k, ip), ip), new), ip)

\* after begin_trans and ilock(ip)
link_locked(k, ip, new) ==
  IF k.inodes[ip].type = T_DIR THEN Return(commit_trans(iunlockput(k, ip)), -1)
  ELSE link_parent(
         nameiparent(iunlock(iupdate([k EXCEPT !.inodes[ip].nlink = @ + 1], ip), ip),
                     new), ip)

\* after namei(old)
link_old(n, new) ==
  IF n.ip = 0 THEN Return(n.k, -1)
  ELSE link_locked(ilock(begin_trans(n.k), n.ip), n.ip, new)

sys_link(k, old, new) == link_old(namei(k, old), new)

\* a faulty isdirempty, which scans the directory from its first slot
isdirempty_all(k, dp) ==
  \A n \in 1..Len(k.dirs[dp]) : k.dirs[dp][n].inum = 0

\* isdirempty: no live entry after the slots of "." and ".."
isdirempty(k, dp) ==
  \A n \in 3..Len(k.dirs[dp]) : k.dirs[dp][n].inum = 0

\* the bad: label of sys_unlink
unlink_bad(k, dp) == Return(commit_trans(iunlockput(k, dp)), -1)

\* the parent's nlink, when the entry of a directory was zeroed
unlink_dotdot(k, dp, ip) ==
  IF k.inodes[ip].type = T_DIR
  THEN iupdate([k EXCEPT !.inodes[dp].nlink = @ - 1], dp)
  ELSE k

\* after ilock(ip)
unlink_locked(k, dp, ip, off) ==
  IF k.inodes[ip].nlink < 1 THEN panic(k, "unlink: nlink < 1")
  ELSE IF k.inodes[ip].type = T_DIR /\ ~isdirempty(k, ip)
  THEN unlink_bad(iunlockput(k, ip), dp)
  ELSE Return(commit_trans(iunlockput(
         iupdate([iunlockput(
                    unlink_dotdot([k EXCEPT !.dirs[dp][off] = [name |-> <<>>, inum |-> 0]],
                                  dp, ip), dp)
                  EXCEPT !.inodes[ip].nlink = @ - 1], ip), ip)), 0)

\* after dirlookup(dp, name, &off)
unlink_entry(r, dp) ==
  IF r.ip = 0 THEN unlink_bad(r.k, dp)
  ELSE unlink_locked(ilock(r.k, r.ip), dp, r.ip, r.off)

\* after begin_trans and ilock(dp)
unlink_named(k, dp, name) ==
  IF name = <<".">> \/ name = <<".", ".">> THEN unlink_bad(k, dp)
  ELSE unlink_entry(dirlookup(k, dp, name), dp)

\* after nameiparent(path, name)
unlink_parent(p) ==
  IF p.ip = 0 THEN Return(p.k, -1)
  ELSE unlink_named(ilock(begin_trans(p.k), p.ip), p.ip, p.name)

sys_unlink(k, path) == unlink_parent(nameiparent(k, path))

(***************************************************************************)
(* create, and the handlers built on it.  A result [k, ip] is the state    *)
(* and the inode returned (locked), ip = 0 for the null pointer.           *)
(***************************************************************************)
\* the "." and ".." entries of a new directory ip under dp: after the
\* second dirlink, after the first, and the whole
create_dotdot(k) == IF k.ret < 0 THEN panic(k, "create dots") ELSE k
create_dot(k, dp, ip) ==
  IF k.ret < 0 THEN panic(k, "create dots")
  ELSE create_dotdot(dirlink(k, ip, <<".", ".">>, dp))
\* faulty entries of a new directory, the parent's nlink left as it was
create_dots_nolink(k, dp, ip) ==
  create_dot(dirlink(k, ip, <<".">>, ip), dp, ip)
create_dots(k, dp, ip) ==
  create_dot(dirlink(iupdate([k EXCEPT !.inodes[dp].nlink = @ + 1], dp),
                     ip, <<".">>, ip), dp, ip)

\* after dirlink(dp, name, ip->inum)
create_entry(k, dp, ip) ==
  IF k.ret < 0 THEN [k |-> panic(k, "create: dirlink"), ip |-> 0]
  ELSE [k |-> iunlockput(k, dp), ip |-> ip]

\* after the entries of a new directory
create_linked(k, dp, name, ip) ==
  IF k.panic THEN [k |-> k, ip |-> 0]
  ELSE create_entry(dirlink(k, dp, name, ip), dp, ip)

\* after the new inode's fields are set
create_typed(k, dp, name, ip, type) ==
  create_linked(IF type = T_DIR THEN create_dots(k, dp, ip) ELSE k, dp, name, ip)

\* after ialloc(dp->dev, type)
create_alloc(a, dp, name, type, major, minor) ==
  IF a.ip = 0 THEN [k |-> panic(a.k, "create: ialloc"), ip |-> 0]
  ELSE create_typed(iupdate([ilock(a.k, a.ip) EXCEPT !.inodes[a.ip].major = major,
                                                    !.inodes[a.ip].minor = minor,
                                                    !.inodes[a.ip].nlink = 1], a.ip),
                    dp, name, a.ip, type)

\* the entry exists: after iunlockput(dp) and ilock(ip)
create_found(k, ip, type) ==
  IF type = T_FILE /\ k.inodes[ip].type = T_FILE THEN [k |-> k, ip |-> ip]
  ELSE [k |-> iunlockput(k, ip), ip |-> 0]

\* a faulty create, which allocates an inode whether or not the name exists
create_lookup_fresh(r, dp, name, type, major, minor) ==
  create_alloc(ialloc(r.k, type), dp, name, type, major, minor)

\* a faulty create, which locks an existing entry's inode before it unlocks
\* the parent
create_lookup_nested(r, dp, name, type, major, minor) ==
  IF r.ip # 0 THEN create_found(iunlockput(ilock(r.k, r.ip), dp), r.ip, type)
  ELSE create_alloc(ialloc(r.k, type), dp, name, type, major, minor)

\* after dirlookup(dp, name, &off)
create_lookup(r, dp, name, type, major, minor) ==
  IF r.ip # 0 THEN create_found(ilock(iunlockput(r.k, dp), r.ip), r.ip, type)
  ELSE create_alloc(ialloc(r.k, type), dp, name, type, major, minor)

\* after nameiparent(path, name)
create_parent(p, type, major, minor) ==
  IF p.ip = 0 THEN [k |-> p.k, ip |-> 0]
  ELSE create_lookup(dirlookup(ilock(p.k, p.ip), p.ip, p.name),
                     p.ip, p.name, type, major, minor)

create(k, path, type, major, minor) ==
  create_parent(nameiparent(k, path), type, major, minor)

\* the symlink-following loop of sys_open, from iteration i with ip locked:
\* fail when a target names nothing, else the inode and counter at loop exit
RECURSIVE open_follow(_, _, _)
\* after namei((char*)ip->addrs)
open_hop(n, ip, i) ==
  IF n.ip = 0 THEN [k |-> iunlock(n.k, ip), ip |-> ip, i |-> i, fail |-> TRUE]
  ELSE open_follow(ilock(iunlock(n.k, ip), n.ip), n.ip, i + 1)
open_follow(k, ip, i) ==
  IF i < MAXHOPS /\ k.inodes[ip].symlnk
  THEN open_hop(namei(k, k.inodes[ip].addrs), ip, i)
  ELSE [k |-> k, ip |-> ip, i |-> i, fail |-> FALSE]

\* after fdalloc(f)
open_fd(d, f, ip, omode) ==
  IF d.fd < 0 THEN Return(iunlockput(fileclose(d.k, f), ip), -1)
  ELSE Return([iunlock(d.k, ip) EXCEPT
                 !.ftable[f].type = "FD_INODE",
                 !.ftable[f].ip = ip,
                 !.ftable[f].readable = (BitAnd(omode, O_WRONLY) = 0),
                 !.ftable[f].writable = (BitAnd(omode, O_WRONLY) = 1
                                         \/ BitAnd(omode, O_RDWR) = 1)],
              d.fd)

\* after filealloc()
open_file(a, ip, omode) ==
  IF a.f = 0 THEN Return(iunlockput(a.k, ip), -1)
  ELSE open_fd(fdalloc(a.k, a.f), a.f, ip, omode)

\* after the loop
open_followed(w, omode) ==
  IF w.fail THEN Return(w.k, -1)
  ELSE IF w.i = MAXHOPS THEN panic(w.k, "symbolic link exceeds 16 links")
  ELSE open_file(filealloc(w.k), w.ip, omode)

\* a faulty sys_open, which opens the inode of path without following it
open_inode_nofollow(c, omode) ==
  IF c.k.panic THEN c.k
  ELSE IF c.ip = 0 THEN Return(c.k, -1)
  ELSE open_followed([k |-> c.k, ip |-> c.ip, i |-> 0, fail |-> FALSE], omode)

\* after the first branch, c = [k, ip]
open_inode(c, omode) ==
  IF c.k.panic THEN c.k
  ELSE IF c.ip = 0 THEN Return(c.k, -1)
  ELSE open_followed(open_follow(c.k, c.ip, 0), omode)

\* without O_CREATE: after ilock(ip)
open_locked(k, ip, omode) ==
  IF k.inodes[ip].type = T_DIR /\ omode # O_RDONLY
  THEN [k |-> iunlockput(k, ip), ip |-> 0]
  ELSE [k |-> k, ip |-> ip]

\* without O_CREATE: after namei(path)
open_named(n, omode) ==
  IF n.ip = 0 THEN [k |-> n.k, ip |-> 0]
  ELSE open_locked(ilock(n.k, n.ip), n.ip, omode)

\* with O_CREATE: after create(path, T_FILE, 0, 0)
open_created(c) == IF c.k.panic THEN c ELSE [k |-> commit_trans(c.k), ip |-> c.ip]

sys_open(k, path, omode) ==
  open_inode(IF BitAnd(omode, O_CREATE) = 1
             THEN open_created(create(begin_trans(k), path, T_FILE, 0, 0))
             ELSE open_named(namei(k, path), omode),
             omode)

\* sys_mkdir and sys_mknod: after create
mkdir_created(c) ==
  IF c.k.panic THEN c.k
  ELSE IF c.ip = 0 THEN Return(commit_trans(c.k), -1)
  ELSE Return(commit_trans(iunlockput(c.k, c.ip)), 0)
sys_mkdir(k, path) == mkdir_created(create(begin_trans(k), path, T_DIR, 0, 0))

mknod_created(c) ==
  IF c.k.panic THEN c.k
  ELSE IF c.ip = 0 THEN Return(commit_trans(c.k), -1)
  ELSE Return(commit_trans(iunlockput(c.k, c.ip)), 0)
sys_mknod(k, path, major, minor) ==
  mknod_created(create(begin_trans(k), path, T_DEV, major, minor))

(***************************************************************************)
(* Symbolic links.                                                         *)
(***************************************************************************)
\* sys_symlink after filealloc(), ip locked
symlink_file(a, ip, target) ==
  IF a.f = 0 THEN Return(iunlockput(a.k, ip), -1)
  ELSE IF Len(target) > MAX_LNK_NAME
  THEN panic(a.k, "target soft link path is too long")
  ELSE Return([iunlock(Event([a.k EXCEPT
                                !.inodes[ip].addrs = safestrcpy(@, target, MAX_LNK_NAME),
                                !.inodes[ip].symlnk = TRUE], "store", ip), ip)
               EXCEPT !.ftable[a.f].type = "FD_SYMLNK",
                      !.ftable[a.f].ip = ip,
                      !.ftable[a.f].readable = TRUE,
                      !.ftable[a.f].writable = FALSE], 0)

\* after commit_trans()
symlink_committed(k, ip, target) ==
  IF ip = 0 THEN Return(k, -1) ELSE symlink_file(filealloc(k), ip, target)

\* after create(path, T_FILE, 0, 0)
symlink_created(c, target) ==
  IF c.k.panic THEN c.k ELSE symlink_committed(commit_trans(c.k), c.ip, target)

sys_symlink(k, target, path) ==
  symlink_created(create(begin_trans(k), path, T_FILE, 0, 0), target)

\* the loop of sys_readlink, from iteration i with the symlink ip locked:
\* broken when a target names nothing, else the last symlink and the counter
RECURSIVE readlink_follow(_, _, _)
\* after namei((char*)ip->addrs)
readlink_hop(n, ip, i) ==
  IF n.ip = 0 THEN [k |-> iunlock(n.k, ip), ip |-> ip, i |-> i, broken |-> TRUE]
  ELSE IF n.k.inodes[n.ip].symlnk
  THEN readlink_follow(ilock(iunlock(n.k, ip), n.ip), n.ip, i + 1)
  ELSE [k |-> n.k, ip |-> ip, i |-> i, broken |-> FALSE]
readlink_follow(k, ip, i) ==
  IF i < MAXHOPS THEN readlink_hop(namei(k, k.inodes[ip].addrs), ip, i)
  ELSE [k |-> k, ip |-> ip, i |-> i, broken |-> FALSE]

\* the end of sys_readlink: the target of the locked inode ip goes to the
\* user's buffer
readlink_copy(k, ip, bufsiz) ==
  IF k.inodes[ip].type = T_FILE /\ k.inodes[ip].symlnk
  THEN Return([iunlock(k, ip) EXCEPT
                 !.ubuf = safestrcpy(@, k.inodes[ip].addrs, bufsiz)],
              Len(safestrcpy(k.ubuf, k.inodes[ip].addrs, bufsiz)))
  ELSE Return(iunlock(k, ip), -1)

\* after the loop
readlink_followed(w, bufsiz) ==
  IF w.broken THEN Return(w.k, -2)
  ELSE IF w.i = MAXHOPS THEN panic(w.k, "symbolic link exceeds 16 links")
  ELSE readlink_copy(w.k, w.ip, bufsiz)

\* a faulty sys_readlink, which returns from a non-symlink with ip locked
readlink_locked_held(k, ip, bufsiz) ==
  IF ~k.inodes[ip].symlnk THEN Return(k, -1)
  ELSE readlink_followed(readlink_follow(k, ip, 0), bufsiz)

\* after ilock(ip)
readlink_locked(k, ip, bufsiz) ==
  IF ~k.inodes[ip].symlnk THEN Return(iunlock(k, ip), -1)
  ELSE readlink_followed(readlink_follow(k, ip, 0), bufsiz)

\* after namei(path)
readlink_named(n, bufsiz) ==
  IF n.ip = 0 THEN Return(n.k, -1)
  ELSE readlink_locked(ilock(n.k, n.ip), n.ip, bufsiz)

sys_readlink(k, path, bufsiz) == readlink_named(namei(k, path), bufsiz)

\* k_readlink fills a buffer of the kernel: its results are [k, buf], the
\* return value in k.ret
RECURSIVE k_readlink_follow(_, _, _)
k_readlink_hop(n, ip, i) ==
  IF n.ip = 0 THEN [k |-> iunlock(n.k, ip), ip |-> ip, i |-> i, broken |-> TRUE]
  ELSE IF n.k.inodes[n.ip].symlnk
  THEN k_readlink_follow(ilock(iunlock(n.k, ip), n.ip), n.ip, i + 1)
  ELSE [k |-> n.k, ip |-> ip, i |-> i, broken |-> FALSE]
k_readlink_follow(k, ip, i) ==
  IF i < MAXHOPS THEN k_readlink_hop(namei(k, k.inodes[ip].addrs), ip, i)
  ELSE [k |-> k, ip |-> ip, i |-> i, broken |-> FALSE]

k_readlink_copy(k, ip, buf, bufsiz) ==
  IF k.inodes[ip].type = T_FILE /\ k.inodes[ip].symlnk
  THEN [k |-> Return(iunlock(k, ip),
                     Len(safestrcpy(buf, k.inodes[ip].addrs, bufsiz))),
        buf |-> safestrcpy(buf, k.inodes[ip].addrs, bufsiz)]
  ELSE [k |-> Return(iunlock(k, ip), -1), buf |-> buf]

k_readlink_followed(w, buf, bufsiz) ==
  IF w.broken THEN [k |-> Return(w.k, -1), buf |-> buf]
  ELSE IF w.i = MAXHOPS
  THEN [k |-> panic(w.k, "symbolic link exceeds 16 links"), buf |-> buf]
  ELSE k_readlink_copy(w.k, w.ip, buf, bufsiz)

k_readlink_locked(k, ip, buf, bufsiz) ==
  IF ~k.inodes[ip].symlnk THEN [k |-> Return(iunlock(k, ip), -1), buf |-> buf]
  ELSE k_readlink_followed(k_readlink_follow(k, ip, 0), buf, bufsiz)

k_readlink_named(n, buf, bufsiz) ==
  IF n.ip = 0 THEN [k |-> Return(n.k, -1), buf |-> buf]
  ELSE k_readlink_locked(ilock(n.k, n.ip), n.ip, buf, bufsiz)

k_readlink(k, path, buf, bufsiz) == k_readlink_named(namei(k, path), buf, bufsiz)

\* sys_chdir: after ilock(ip)
chdir_locked(k, ip) ==
  IF k.inodes[ip].type # T_DIR THEN Return(iunlockput(k, ip), -1)
  ELSE Return([iput(iunlock(k, ip), k.cwd) EXCEPT !.cwd = ip], 0)

\* after namei(sym_path) or namei(path)
chdir_named(n) ==
  IF n.ip = 0 THEN Return(n.k, -1) ELSE chdir_locked(ilock(n.k, n.ip), n.ip)

\* after k_readlink(path, sym_path, MAX_LNK_NAME)
chdir_link(l, path) ==
  IF l.k.panic THEN l.k
  ELSE chdir_named(IF l.k.ret # -1 THEN namei(l.k, l.buf) ELSE namei(l.k, path))

\* sym_path, a local array, starts with arbitrary content, which k_readlink
\* overwrites whenever it does not return -1
sys_chdir(k, path) == chdir_link(k_readlink(k, path, <<>>, MAX_LNK_NAME), path)

(***************************************************************************)
(* Tags: fs_ftag, fs_funtag and fs_gettag keep a set of keys per inode.    *)
(***************************************************************************)
fs_ftag(k, f, key) ==
  IF k.ftable[f].ip = 0 THEN Return(k, -1)
  ELSE Return([k EXCEPT !.tags[k.ftable[f].ip] = @ \cup {key}], 0)

fs_funtag(k, f, key) ==
  IF k.ftable[f].ip = 0 \/ key \notin k.tags[k.ftable[f].ip] THEN Return(k, -1)
  ELSE Return([k EXCEPT !.tags[k.ftable[f].ip] = @ \ {key}], 0)

fs_gettag(k, f, key) ==
  IF k.ftable[f].ip = 0 \/ key \notin k.tags[k.ftable[f].ip] THEN Return(k, -1)
  ELSE Return(k, 0)

\* ret = fs_...(); commit_trans(); return ret
tag_commit(t) == Return(commit_trans(t), t.ret)

sys_ftag(k, fd, key) ==
  IF argfd(k, fd) = 0 THEN Return(k, -1)
  ELSE tag_commit(fs_ftag(begin_trans(k), argfd(k, fd), key))

sys_funtag(k, fd, key) ==
  IF argfd(k, fd) = 0 THEN Return(k, -1)
  ELSE tag_commit(fs_funtag(begin_trans(k), argfd(k, fd), key))

sys_gettag(k, fd, key) ==
  IF argfd(k, fd) = 0 THEN Return(k, -1)
  ELSE tag_commit(fs_gettag(begin_trans(k), argfd(k, fd), key))

(***************************************************************************)
(* The state machine: one action per system call.                          *)
(***************************************************************************)
\* the arguments the calls are made with
Pa == <<"a">>
Pd == <<"d">>
Pda == <<"d", "/", "a">>
Pdas == <<"d", "/", "a", "/">>
Pdot == <<".">>
Pdota == <<".", "/", "a">>
Proot == <<"/">>
Paths == {Pa, Pd, Pda}
Targets == Paths \cup {Pdas, Pdota}
UnlinkPaths == Paths \cup {Pdot, Proot}
Modes == {O_RDONLY, O_WRONLY, O_RDWR, O_CREATE + O_RDWR}
BufSizes == {0, 1, MAX_LNK_NAME + 1}
Keys == {"k"}

\* the kernel state at the entry of a handler
K == [inodes |-> inodes, dirs |-> dirs, tags |-> tags, ofile |-> ofile,
      ftable |-> ftable, cwd |-> cwd, ubuf |-> ubuf, held |-> held,
      txn |-> txn, panic |-> panicked, ev |-> <<>>, ret |-> 0]

\* the state after mkfs and the first process's start, with ni inodes and
\* nf files: an empty root directory, which is the current directory
RootDir == <<[name |-> <<".">>, inum |-> ROOTINO],
             [name |-> <<".", ".">>, inum |-> ROOTINO]>>
Boot(ni, nf) ==
  [inodes |-> [i \in 1..ni |->
                 IF i = ROOTINO
                 THEN [FreeInode EXCEPT !.type = T_DIR, !.nlink = 1, !.ref = 1]
                 ELSE FreeInode],
   dirs |-> [i \in 1..ni |-> IF i = ROOTINO THEN RootDir ELSE <<>>],
   tags |-> [i \in 1..ni |-> {}],
   ofile |-> [fd \in Fds |-> 0],
   ftable |-> [f \in 1..nf |-> FreeFile],
   cwd |-> ROOTINO, ubuf |-> <<>>, held |-> {}, txn |-> 0, panic |-> FALSE,
   ev |-> <<>>, ret |-> 0]

NoCall == [op |-> "none", a |-> <<>>, b |-> <<>>, n |-> 0, ret |-> 0, ev |-> <<>>]

\* the variables hold kernel state k, before any call
Start(k) ==
  /\ inodes = k.inodes
  /\ dirs = k.dirs
  /\ tags = k.tags
  /\ ofile = k.ofile
  /\ ftable = k.ftable
  /\ cwd = k.cwd
  /\ ubuf = k.ubuf
  /\ held = k.held
  /\ txn = k.txn
  /\ panicked = k.panic
  /\ steps = 0
  /\ last = NoCall

Init == Start(Boot(NINODES, NFILE))

\* the call op(a, b, n) took the kernel to state r
Apply(op, a, b, n, r) ==
  /\ inodes' = r.inodes
  /\ dirs' = r.dirs
  /\ tags' = r.tags
  /\ ofile' = r.ofile
  /\ ftable' = r.ftable
  /\ cwd' = r.cwd
  /\ ubuf' = r.ubuf
  /\ held' = r.held
  /\ txn' = r.txn
  /\ panicked' = r.panic
  /\ steps' = steps + 1
  /\ last' = [op |-> op, a |-> a, b |-> b, n |-> n, ret |-> r.ret, ev |-> r.ev]

\* a call of Spec: a panic halts the system, and a run makes MaxSteps calls
Call(op, a, b, n, r) ==
  /\ ~panicked
  /\ steps < MaxSteps
  /\ Apply(op, a, b, n, r)

Dup == \E fd \in Fds : Call("dup", <<>>, <<>>, fd, sys_dup(K, fd))
Close == \E fd \in Fds : Call("close", <<>>, <<>>, fd, sys_close(K, fd))
Pipe == Call("pipe", <<>>, <<>>, 0, sys_pipe(K))
Link == \E old \in Paths, new \in Paths :
          Call("link", old, new, 0, sys_link(K, old, new))
Unlink == \E path \in UnlinkPaths : Call("unlink", path, <<>>, 0, sys_unlink(K, path))
Open == \E path \in Paths, omode \in Modes :
          Call("open", path, <<>>, omode, sys_open(K, path, omode))
Mkdir == \E path \in Paths : Call("mkdir", path, <<>>, 0, sys_mkdir(K, path))
Mknod == \E path \in Paths : Call("mknod", path, <<>>, 0, sys_mknod(K, path, 1, 1))
Chdir == \E path \in Paths : Call("chdir", path, <<>>, 0, sys_chdir(K, path))
Symlink == \E target \in Targets, path \in Paths :
             Call("symlink", path, target, 0, sys_symlink(K, target, path))
Readlink == \E path \in Paths, bufsiz \in BufSizes :
              Call("readlink", path, <<>>, bufsiz, sys_readlink(K, path, bufsiz))
Ftag == \E fd \in Fds, key \in Keys : Call("ftag", <<>>, <<>>, fd, sys_ftag(K, fd, key))
Funtag == \E fd \in Fds, key \in Keys :
            Call("funtag", <<>>, <<>>, fd, sys_funtag(K, fd, key))
Gettag == \E fd \in Fds, key \in Keys :
            Call("gettag", <<>>, <<>>, fd, sys_gettag(K, fd, key))

Next ==
  \/ Dup
  \/ Close
  \/ Pipe
  \/ Link
  \/ Unlink
  \/ Open
  \/ Mkdir
  \/ Mknod
  \/ Chdir
  \/ Symlink
  \/ Readlink
  \/ Ftag
  \/ Funtag
  \/ Gettag

Spec == Init /\ [][Next]_vars

(***************************************************************************)
(* Chains of symbolic links.  SpecChain starts from the state that         *)
(* open(b, O_CREATE) and close, or mkdir(b), and then MaxChain calls of    *)
(* symlink leave on a disk with enough inodes and a file table with enough *)
(* files: a plain file or a directory b and the links c -> b, e -> c,      *)
(* f -> e, ...  Opening or reading the j-th link follows a chain of j      *)
(* symlinks.                                                               *)
(***************************************************************************)
Letters == <<"b", "c", "e", "f", "g", "h", "i", "j", "l", "m", "n", "o", "p",
             "q", "r", "s", "t", "u", "v", "w", "x", "y">>
\* the name of the j-th link of the chain, of its end b for j = 0
LinkName(j) == <<Letters[j + 1]>>

ChainEnd(type) ==
  IF type = T_DIR
  THEN sys_mkdir(Boot(MaxChain + 2, MaxChain + NFILE), LinkName(0))
  ELSE sys_close(sys_open(Boot(MaxChain + 2, MaxChain + NFILE),
                          LinkName(0), O_CREATE + O_RDWR), 0)

\* the j-th link, made in state k
ChainLink(k, j) ==
  IF k.panic THEN k ELSE sys_symlink(k, LinkName(j - 1), LinkName(j))

RECURSIVE ChainAfter(_, _)
ChainAfter(j, type) ==
  IF j = 0 THEN ChainEnd(type) ELSE ChainLink(ChainAfter(j - 1, type), j)

InitChain == \E type \in {T_FILE, T_DIR} : Start(ChainAfter(MaxChain, type))

ChainPaths == {LinkName(j) : j \in 0..MaxChain}
\* the paths readlink and chdir are called with
ReadPaths == {LinkName(1), LinkName(MAXHOPS), LinkName(MaxChain)}
DirPaths == {LinkName(0), LinkName(1)}

\* a call of SpecChain
CallChain(op, a, b, n, r) ==
  /\ ~panicked
  /\ steps < ChainSteps
  /\ Apply(op, a, b, n, r)

OpenChain == \E path \in ChainPaths, omode \in {O_RDONLY, O_WRONLY} :
               CallChain("open", path, <<>>, omode, sys_open(K, path, omode))
ReadlinkChain == \E path \in ReadPaths :
                   CallChain("readlink", path, <<>>, MAX_LNK_NAME,
                             sys_readlink(K, path, MAX_LNK_NAME))
ChdirChain == \E path \in DirPaths :
                CallChain("chdir", path, <<>>, 0, sys_chdir(K, path))
CloseChain == \E fd \in Fds : CallChain("close", <<>>, <<>>, fd, sys_close(K, fd))

NextChain ==
  \/ OpenChain
  \/ ReadlinkChain
  \/ ChdirChain
  \/ CloseChain

SpecChain == InitChain /\ [][NextChain]_vars

(***************************************************************************)
(* Links and unlinks.  SpecLink makes up to LinkSteps calls that create    *)
(* the plain file a or the directory d, link, unlink and close.            *)
(***************************************************************************)
CallLink(op, a, b, n, r) ==
  /\ ~panicked
  /\ steps < LinkSteps
  /\ Apply(op, a, b, n, r)

CreateLink == CallLink("open", Pa, <<>>, O_CREATE + O_RDWR,
                       sys_open(K, Pa, O_CREATE + O_RDWR))
MkdirLink == CallLink("mkdir", Pd, <<>>, 0, sys_mkdir(K, Pd))
LinkLink == \E old \in {Pa, Pd}, new \in {Pd, Pda} :
              CallLink("link", old, new, 0, sys_link(K, old, new))
UnlinkLink == \E path \in Paths :
                CallLink("unlink", path, <<>>, 0, sys_unlink(K, path))
CloseLink == \E fd \in Fds : CallLink("close", <<>>, <<>>, fd, sys_close(K, fd))

NextLink ==
  \/ CreateLink
  \/ MkdirLink
  \/ LinkLink
  \/ UnlinkLink
  \/ CloseLink

SpecLink == Init /\ [][NextLink]_vars

(***************************************************************************)
(* Open files.  SpecFile makes up to FileSteps calls of open, pipe, dup,   *)
(* close and symlink.                                                      *)
(***************************************************************************)
CallFile(op, a, b, n, r) ==
  /\ ~panicked
  /\ steps < FileSteps
  /\ Apply(op, a, b, n, r)

OpenFile == \E omode \in {O_RDONLY, O_CREATE + O_RDWR} :
              CallFile("open", Pa, <<>>, omode, sys_open(K, Pa, omode))
PipeFile == CallFile("pipe", <<>>, <<>>, 0, sys_pipe(K))
DupFile == \E fd \in Fds : CallFile("dup", <<>>, <<>>, fd, sys_dup(K, fd))
CloseFile == \E fd \in Fds : CallFile("close", <<>>, <<>>, fd, sys_close(K, fd))
SymlinkFile == CallFile("symlink", Pd, Pa, 0, sys_symlink(K, Pa, Pd))

NextFile ==
  \/ OpenFile
  \/ PipeFile
  \/ DupFile
  \/ CloseFile
  \/ SymlinkFile

SpecFile == Init /\ [][NextFile]_vars

(***************************************************************************)
(* The vocabulary of the properties.                                       *)
(***************************************************************************)
\* the inode path names in state k, without following a final symlink; 0 if
\* it names none
Resolve(k, path) == namei(k, path).ip

\* the live entries of all directories, as (directory, name, inode number)
DirEntries(k) ==
  UNION {{<<dp, k.dirs[dp][n].name, k.dirs[dp][n].inum>> :
            n \in {m \in 1..Len(k.dirs[dp]) : k.dirs[dp][m].inum # 0}} :
         dp \in DOMAIN k.dirs}

\* kind, link_count and symlink_flag of every inode
Meta(k) ==
  [i \in DOMAIN k.inodes |->
     <<k.inodes[i].type, k.inodes[i].nlink, k.inodes[i].symlnk>>]

\* the calls of begin_trans and commit_trans among the events ev, in order
IsTxnEvent(e) == e[1] \in {"begin_trans", "commit_trans"}
TxnCalls(ev) ==
  [n \in 1..Len(SelectSeq(ev, IsTxnEvent)) |-> SelectSeq(ev, IsTxnEvent)[n][1]]

\* the last call returned to its caller
Returned == last.op # "none" /\ ~panicked

\* the system calls whose handlers open a transaction
TxnHandlers == {"link", "unlink", "open", "mkdir", "mknod", "symlink",
                "ftag", "funtag", "gettag"}

(***************************************************************************)
(* C1.  Every handler that opens a transaction calls commit_trans exactly  *)
(* once after its begin_trans and before it returns, on every returning    *)
(* exit path, and never calls begin_trans while its transaction is open:   *)
(* the begin/commit calls of a handler that returned are none, or one      *)
(* begin_trans followed by one commit_trans, and no transaction is open    *)
(* at the return.  Only the handlers C1 lists open a transaction.          *)
(***************************************************************************)
C1_TransactionBracket ==
  Returned =>
    /\ TxnCalls(last.ev) \in {<<>>, <<"begin_trans", "commit_trans">>}
    /\ txn = 0
    /\ TxnCalls(last.ev) # <<>> => last.op \in TxnHandlers
    /\ (last.op = "open" /\ TxnCalls(last.ev) # <<>>) => BitAnd(last.n, O_CREATE) = 1
    /\ last.op \in {"mkdir", "mknod", "symlink"} => TxnCalls(last.ev) # <<>>
    /\ (last.op = "open" /\ BitAnd(last.n, O_CREATE) = 1) => TxnCalls(last.ev) # <<>>

\* link(old, new) failed at the bad: label, past nameiparent, and committed
C1_Witness ==
  /\ Returned
  /\ last.op = "link"
  /\ last.ret = -1
  /\ TxnCalls(last.ev) = <<"begin_trans", "commit_trans">>
  /\ \E n \in 1..Len(last.ev) : last.ev[n][1] = "nameiparent"

(***************************************************************************)
(* C2.  A call that returns a negative value without halting leaves the    *)
(* descriptor table, the set of directory entries and every inode's kind,  *)
(* link_count and symlink_flag as they were before the call.               *)
(***************************************************************************)
C2_FailedCallChangesNothing ==
  [][(last'.ret < 0 /\ ~panicked') =>
       /\ ofile' = ofile
       /\ DirEntries(K') = DirEntries(K)
       /\ Meta(K') = Meta(K)]_vars

\* path names an inode that is no symlink
NamesNonSymlink(k, path) ==
  Resolve(k, path) # 0 /\ ~k.inodes[Resolve(k, path)].symlnk

(***************************************************************************)
(* C3.  Round trip: after symlink(target, path) returned 0 for a target of *)
(* at most MAX_LNK_NAME characters, readlink(path, buf, bufsiz) with       *)
(* bufsiz larger than the target's length returns the target's length and  *)
(* leaves buf equal to target.  It is stated for the targets that name an  *)
(* existing inode that is no symlink, where readlink has no chain to       *)
(* follow past the link: the round trip fails already there.               *)
(***************************************************************************)
C3_RoundTrip ==
  [][(/\ last.op = "symlink"
      /\ last.ret = 0
      /\ Len(last.b) <= MAX_LNK_NAME
      /\ NamesNonSymlink(K, last.b)
      /\ last'.op = "readlink"
      /\ last'.a = last.a
      /\ last'.n > Len(last.b))
     => (last'.ret = Len(last.b) /\ ubuf' = last.b)]_vars

(***************************************************************************)
(* Chains: from the inode ip reached after d hops, follow symlink targets  *)
(* to the first inode that is no symlink.  The result is that inode and    *)
(* the hops made; ip = 0 when a target names nothing, d > MAXHOPS when     *)
(* more than MAXHOPS hops can be made.                                     *)
(***************************************************************************)
RECURSIVE Follow(_, _, _)
Follow(k, ip, d) ==
  IF ip = 0 \/ d > MAXHOPS THEN [ip |-> ip, d |-> d]
  ELSE IF ~k.inodes[ip].symlnk THEN [ip |-> ip, d |-> d]
  ELSE Follow(k, Resolve(k, k.inodes[ip].addrs), d + 1)

Chain(k, path) == Follow(k, Resolve(k, path), 0)

\* descriptor fd of state r is new since state k and its open file refers
\* to inode ip
OpenedInode(k, r, fd, ip) ==
  /\ fd \in DOMAIN r.ofile
  /\ k.ofile[fd] = 0
  /\ r.ofile[fd] # 0
  /\ r.ftable[r.ofile[fd]].type = "FD_INODE"
  /\ r.ftable[r.ofile[fd]].ip = ip

\* open(path) without O_CREATE, in a state with a free open file and a free
\* descriptor, on a path that starts a chain of at most MAXHOPS - 1 symlinks
\* ending at an inode that is no symlink
OpensChain(k, op, path, omode) ==
  /\ op = "open"
  /\ BitAnd(omode, O_CREATE) = 0
  /\ Chain(k, path).ip # 0
  /\ Chain(k, path).d <= MAXHOPS - 1
  /\ FreeFiles(k) # {}
  /\ FreeFds(k) # {}

\* path itself names a directory and the mode is not O_RDONLY
DirectoryForWriting(k, path, omode) ==
  k.inodes[Resolve(k, path)].type = T_DIR /\ omode # O_RDONLY

(***************************************************************************)
(* C4, as amended.  open(path) without O_CREATE on a path that starts a    *)
(* chain of d <= 15 symlinks ending at an existing non-symlink inode, with *)
(* an open file and a descriptor available, returns a new descriptor whose *)
(* open file refers to that terminal inode, unless path itself names a     *)
(* directory and the mode is not O_RDONLY: then open returns -1 and        *)
(* allocates no descriptor.                                                *)
(***************************************************************************)
C4_OpenFollowsChain ==
  [][OpensChain(K, last'.op, last'.a, last'.n) =>
       IF DirectoryForWriting(K, last'.a, last'.n)
       THEN last'.ret = -1 /\ ofile' = ofile
       ELSE OpenedInode(K, K', last'.ret, Chain(K, last'.a).ip)]_vars

\* open followed a chain of MAXHOPS - 1 symlinks to the inode at its end
C4_Witness ==
  /\ last.op = "open"
  /\ last.a = LinkName(MAXHOPS - 1)
  /\ last.ret >= 0
  /\ Chain(K, last.a).d = MAXHOPS - 1
  /\ ofile[last.ret] # 0
  /\ ftable[ofile[last.ret]].ip = Chain(K, last.a).ip
  /\ ~inodes[Chain(K, last.a).ip].symlnk

(***************************************************************************)
(* C4, as the claim states it: open(path) without O_CREATE on a path that  *)
(* starts a chain of d <= 15 symlinks ending at an existing non-symlink    *)
(* inode, with an open file and a descriptor available, returns a          *)
(* descriptor whose open file refers to the terminal inode.                *)
(***************************************************************************)
C4_OpenFollowsAnyChain ==
  [][OpensChain(K, last'.op, last'.a, last'.n) =>
       OpenedInode(K, K', last'.ret, Chain(K, last'.a).ip)]_vars

(***************************************************************************)
(* C5.  open on a path that starts a chain of exactly 16 symlinks is       *)
(* rejected with a negative return value: the system does not panic and    *)
(* no descriptor is allocated.                                             *)
(***************************************************************************)
C5_Depth16Rejected ==
  [][(/\ last'.op = "open"
      /\ Chain(K, last'.a).ip # 0
      /\ Chain(K, last'.a).d = MAXHOPS)
     => (~panicked' /\ last'.ret < 0 /\ ofile' = ofile)]_vars

\* the first part of C6: readlink on a path that names a non-symlink inode
\* returns -1
C6_NotASymlink ==
  [][(last'.op = "readlink" /\ NamesNonSymlink(K, last'.a)) =>
       (last'.ret = -1 /\ ~panicked')]_vars

\* the second part of C6: readlink on a symlink whose chain reaches a target
\* that names no inode returns -2
C6_BrokenLink ==
  [][(/\ last'.op = "readlink"
      /\ Resolve(K, last'.a) # 0
      /\ inodes[Resolve(K, last'.a)].symlnk
      /\ Chain(K, last'.a).ip = 0)
     => (last'.ret = -2 /\ ~panicked')]_vars

(***************************************************************************)
(* C6.  readlink(path) on a path that names a non-symlink inode returns    *)
(* the NotASymlink error (-1); on a symlink whose chain reaches a target   *)
(* that names no inode it returns the BrokenLink error (-2), a different   *)
(* value; and readlink never panics, whatever the symlinks are.           *)
(***************************************************************************)
C6_ReadlinkErrors ==
  [][last'.op = "readlink" =>
       /\ ~panicked'
       /\ NamesNonSymlink(K, last'.a) => last'.ret = -1
       /\ (/\ Resolve(K, last'.a) # 0
           /\ inodes[Resolve(K, last'.a)].symlnk
           /\ Chain(K, last'.a).ip = 0) => last'.ret = -2]_vars

\* The steps of link(a, b), unlink(a), unlink(b), from the last to the first.
NoEntryNames(k, i) == \A e \in DirEntries(k) : e[3] # i

\* after unlink(b)
C7_Unlinked(k, i) ==
  k.ret = 0 => (NoEntryNames(k, i) /\ k.inodes[i].nlink = 0)

\* after unlink(a)
C7_OneName(k, b, i) ==
  k.ret = 0 =>
    /\ Resolve(k, b) = i
    /\ k.inodes[i].nlink = 1
    /\ C7_Unlinked(sys_unlink(k, b), i)

\* after link(a, b)
C7_Linked(k, a, b, i) == k.ret = 0 => C7_OneName(sys_unlink(k, a), b, i)

PlainFileOnce(k, a) ==
  /\ Resolve(k, a) # 0
  /\ k.inodes[Resolve(k, a)].type = T_FILE
  /\ ~k.inodes[Resolve(k, a)].symlnk
  /\ k.inodes[Resolve(k, a)].nlink = 1

(***************************************************************************)
(* C7.  For a plain file at path a with link_count 1 and a free name b:    *)
(* after link(a, b) returns 0 and then unlink(a) returns 0, b resolves to  *)
(* the inode a named and that inode's link_count is 1; after unlink(b)     *)
(* then returns 0, no directory entry names the inode and its link_count   *)
(* is 0.  The three calls are made from every reachable state, for every a *)
(* and b.                                                                  *)
(***************************************************************************)
C7_LinkUnlink ==
  \A a \in Paths, b \in Paths :
    (~panicked /\ PlainFileOnce(K, a) /\ Resolve(K, b) = 0) =>
      C7_Linked(sys_link(K, a, b), a, b, Resolve(K, a))

\* the file created as a was linked as d, a was unlinked and now d: the
\* inode, held open by descriptor 0, has no name and link_count 0
C7_Witness ==
  /\ last.op = "unlink"
  /\ last.a = Pd
  /\ last.ret = 0
  /\ ofile[0] # 0
  /\ ftable[ofile[0]].type = "FD_INODE"
  /\ inodes[ftable[ofile[0]].ip].type = T_FILE
  /\ inodes[ftable[ofile[0]].ip].nlink = 0
  /\ NoEntryNames(K, ftable[ofile[0]].ip)
  /\ DirEntries(K) = DirEntries(Boot(NINODES, NFILE))

(***************************************************************************)
(* Unlinking a directory.                                                  *)
(***************************************************************************)
Dots == {<<".">>, <<".", ".">>}

\* the inode number of the entry name of directory dp, 0 if there is none
EntryOf(k, dp, name) ==
  IF Slots(k, dp, name) = {} THEN 0
  ELSE k.dirs[dp][MinOf(Slots(k, dp, name))].inum

\* directory ip holds no live entry other than "." and ".."
OnlyDots(k, ip) ==
  \A n \in 1..Len(k.dirs[ip]) :
    k.dirs[ip][n].inum # 0 => k.dirs[ip][n].name \in Dots

\* unlink took state k to state r: the entry name of dp, which names the
\* directory ip, was removed if ip was empty, and nothing changed if not
UnlinkedDirectory(k, r, dp, name, ip) ==
  IF OnlyDots(k, ip)
  THEN /\ r.ret = 0
       /\ r.dirs[dp][MinOf(Slots(k, dp, name))] = [name |-> <<>>, inum |-> 0]
       /\ r.inodes[dp].nlink = k.inodes[dp].nlink - 1
       /\ r.inodes[ip].nlink = k.inodes[ip].nlink - 1
  ELSE /\ r.ret < 0
       /\ ~r.panic
       /\ r.dirs[ip] = k.dirs[ip]
       /\ r.inodes[ip].nlink = k.inodes[ip].nlink
       /\ r.dirs[dp] = k.dirs[dp]
       /\ r.inodes[dp].nlink = k.inodes[dp].nlink

\* the state after the last call, with its return value
After == [K EXCEPT !.ret = last.ret]

\* unlink(path) in state k, where path has a final component in a parent
\* directory and names a directory
UnlinksDirectory(k, op, path) ==
  /\ op = "unlink"
  /\ nameiparent(k, path).ip # 0
  /\ Resolve(k, path) # 0
  /\ k.inodes[Resolve(k, path)].type = T_DIR

(***************************************************************************)
(* C8, as amended.  unlink(path) where path names a directory and its      *)
(* final component is a name other than "." and "..": if it holds no live  *)
(* entry other than "." and "..", unlink returns 0, zeroes the entry in    *)
(* the parent and decrements the parent's and the directory's link_count   *)
(* by one; if it holds another live entry, unlink returns an error and the *)
(* directory's entries, its link_count, the parent's entry and the         *)
(* parent's link_count are unchanged.  When the final component is "." or  *)
(* "..", unlink returns -1 and changes no entry and no link_count.         *)
(***************************************************************************)
C8_UnlinkDirectory ==
  [][UnlinksDirectory(K, last'.op, last'.a)
     => IF nameiparent(K, last'.a).name \in Dots
        THEN /\ last'.ret = -1
             /\ DirEntries(K') = DirEntries(K)
             /\ Meta(K') = Meta(K)
        ELSE UnlinkedDirectory(K, After', nameiparent(K, last'.a).ip,
                               nameiparent(K, last'.a).name,
                               Resolve(K, last'.a))]_vars

\* unlink(d) was refused because d holds the entry a
C8_Witness ==
  /\ last.op = "unlink"
  /\ last.a = Pd
  /\ last.ret = -1
  /\ Resolve(K, Pd) # 0
  /\ inodes[Resolve(K, Pd)].type = T_DIR
  /\ Resolve(K, Pda) # 0
  /\ ~OnlyDots(K, Resolve(K, Pd))

(***************************************************************************)
(* C8, as the claim states it: unlink(path) where path names a directory,  *)
(* whatever its final component, returns 0, zeroes the entry in the parent *)
(* and decrements both link_counts if the directory holds no live entry    *)
(* other than "." and "..", and returns an error and changes nothing if it *)
(* holds another.                                                          *)
(***************************************************************************)
C8_UnlinkAnyDirectory ==
  [][UnlinksDirectory(K, last'.op, last'.a)
     => UnlinkedDirectory(K, After', nameiparent(K, last'.a).ip,
                          nameiparent(K, last'.a).name,
                          Resolve(K, last'.a))]_vars

\* mkdir took state k to state r and made directory ip under dp
MadeDirectory(k, r, dp, ip) ==
  /\ ip # 0
  /\ k.inodes[ip].type = 0
  /\ r.inodes[ip].type = T_DIR
  /\ EntryOf(r, ip, <<".">>) = ip
  /\ EntryOf(r, ip, <<".", ".">>) = dp
  /\ r.inodes[ip].nlink = 1
  /\ r.inodes[dp].nlink = k.inodes[dp].nlink + 1

(***************************************************************************)
(* C9.  After mkdir(p) returns 0, for a name that was not present in its   *)
(* parent: the new directory has an entry "." with its own inode number    *)
(* and an entry ".." with the parent's; its link_count is 1; the parent's  *)
(* link_count is one more than before; and the parent has an entry from    *)
(* the final component of p to the new inode.                              *)
(***************************************************************************)
C9_Mkdir ==
  [][(last'.op = "mkdir" /\ last'.ret = 0) =>
       /\ nameiparent(K, last'.a).ip # 0
       /\ EntryOf(K, nameiparent(K, last'.a).ip, nameiparent(K, last'.a).name) = 0
       /\ MadeDirectory(K, K', nameiparent(K, last'.a).ip,
                        EntryOf(K', nameiparent(K, last'.a).ip,
                                nameiparent(K, last'.a).name))]_vars

\* mkdir(d/a) made a directory under d, whose link_count became 2
C9_Witness ==
  /\ last.op = "mkdir"
  /\ last.a = Pda
  /\ last.ret = 0
  /\ Resolve(K, Pda) # 0
  /\ inodes[Resolve(K, Pda)].type = T_DIR
  /\ EntryOf(K, Resolve(K, Pda), <<".", ".">>) = Resolve(K, Pd)
  /\ inodes[Resolve(K, Pd)].nlink = 2

\* the inodes in use, and a path that names a plain file that is no symlink
Allocated(k) == {i \in DOMAIN k.inodes : k.inodes[i].type # 0}

NamesPlainFile(k, path) ==
  /\ Resolve(k, path) # 0
  /\ k.inodes[Resolve(k, path)].type = T_FILE
  /\ ~k.inodes[Resolve(k, path)].symlnk

(***************************************************************************)
(* C10.  open(path, O_CREATE) on a path that names a plain file that is no *)
(* symlink is idempotent: a call that succeeds yields a descriptor for     *)
(* that inode, and every call allocates no inode, adds or changes no       *)
(* directory entry and leaves the inode's link_count as it was.            *)
(***************************************************************************)
C10_OpenCreateIdempotent ==
  [][(/\ last'.op = "open"
      /\ BitAnd(last'.n, O_CREATE) = 1
      /\ NamesPlainFile(K, last'.a))
     => /\ ~panicked'
        /\ last'.ret >= 0 => OpenedInode(K, K', last'.ret, Resolve(K, last'.a))
        /\ last'.ret < 0 => ofile' = ofile
        /\ Allocated(K') = Allocated(K)
        /\ dirs' = dirs
        /\ inodes'[Resolve(K, last'.a)].nlink = inodes[Resolve(K, last'.a)].nlink]_vars

\* the second open(path, O_CREATE) of a file: two descriptors, two open files,
\* one inode with link_count 1
C10_Witness ==
  /\ last.op = "open"
  /\ BitAnd(last.n, O_CREATE) = 1
  /\ last.ret = 1
  /\ ofile[0] # 0
  /\ ofile[1] # 0
  /\ ofile[0] # ofile[1]
  /\ ftable[ofile[0]].type = "FD_INODE"
  /\ ftable[ofile[1]].type = "FD_INODE"
  /\ ftable[ofile[0]].ip = ftable[ofile[1]].ip
  /\ Resolve(K, last.a) = ftable[ofile[1]].ip
  /\ inodes[ftable[ofile[1]].ip].nlink = 1
  /\ Cardinality(Allocated(K)) = 2

(***************************************************************************)
(* Descriptors and open files.                                             *)
(***************************************************************************)
\* the descriptors of state k that refer to open file f
SlotsOf(k, f) == {fd \in DOMAIN k.ofile : k.ofile[fd] = f}

\* from state k to state r, open file f kept its content and its inode, and
\* its reference count changed by n
SameFile(k, r, f, n) ==
  /\ r.ftable[f] = [k.ftable[f] EXCEPT !.ref = @ + n]
  /\ r.ftable[f].ref > 0
  /\ r.inodes = k.inodes

\* from state k to state r, inode ip lost one reference: it was freed if
\* that was its last and it had no link
Released(k, r, ip) ==
  IF k.inodes[ip].ref = 1 /\ k.inodes[ip].nlink = 0
  THEN r.inodes[ip] = FreeInode
  ELSE r.inodes[ip] = [k.inodes[ip] EXCEPT !.ref = @ - 1]

\* from state k to state r, open file f was destroyed
Destroyed(k, r, f) ==
  /\ r.ftable[f].ref = 0
  /\ k.ftable[f].type = "FD_INODE" => Released(k, r, k.ftable[f].ip)

\* dup(fd) took state k to state r and returned fd2
Dupped(k, r, fd, fd2) ==
  /\ fd2 # fd
  /\ k.ofile[fd] # 0
  /\ k.ofile[fd2] = 0
  /\ r.ofile = [k.ofile EXCEPT ![fd2] = k.ofile[fd]]
  /\ SameFile(k, r, k.ofile[fd], 1)

\* close(fd) took state k to state r
Closed(k, r, fd) ==
  /\ r.ofile = [k.ofile EXCEPT ![fd] = 0]
  /\ IF SlotsOf(k, k.ofile[fd]) = {fd}
     THEN Destroyed(k, r, k.ofile[fd])
     ELSE SameFile(k, r, k.ofile[fd], -1)

\* the open files that descriptors refer to and that the step destroys
DestroyedFiles(k, r) ==
  {f \in DOMAIN k.ftable : SlotsOf(k, f) # {} /\ k.ftable[f].ref > 0
                             /\ r.ftable[f].ref = 0}

(***************************************************************************)
(* C11.  After dup(fd) returns fd2, both descriptors refer to the same     *)
(* open file, whose content is as before with one more reference; a close  *)
(* that returns 0 clears its slot only, and leaves the open file live with *)
(* one reference less when another descriptor refers to it; the open file  *)
(* is destroyed (reference count 0, the reference of its inode released)   *)
(* when the last descriptor that refers to it is closed, and by no other   *)
(* step.                                                                   *)
(***************************************************************************)
C11_DupCloseShare ==
  [][/\ (last'.op = "dup" /\ last'.ret >= 0) => Dupped(K, K', last'.n, last'.ret)
     /\ (last'.op = "close" /\ last'.ret = 0) => Closed(K, K', last'.n)
     /\ \A f \in DestroyedFiles(K, K') :
          last'.op = "close" /\ SlotsOf(K, f) = {last'.n}]_vars

\* after open, dup and close(0), close(1) destroyed the open file: no
\* descriptor and no open file is left, and the inode has no reference
C11_Witness ==
  /\ last.op = "close"
  /\ last.n = 1
  /\ last.ret = 0
  /\ steps = 4
  /\ \A fd \in Fds : ofile[fd] = 0
  /\ \A f \in DOMAIN ftable : ftable[f].ref = 0
  /\ Resolve(K, Pa) # 0
  /\ inodes[Resolve(K, Pa)].ref = 0
(***************************************************************************)
(* Locks and transactions along a handler's calls.                         *)
(***************************************************************************)
\* the inodes locked after the first n of the calls ev, none locked before
RECURSIVE HeldAfter(_, _)
HeldAfter(ev, n) ==
  IF n = 0 THEN {}
  ELSE IF ev[n][1] = "ilock" THEN HeldAfter(ev, n - 1) \cup {ev[n][2]}
  ELSE IF ev[n][1] = "iunlock" THEN HeldAfter(ev, n - 1) \ {ev[n][2]}
  ELSE HeldAfter(ev, n - 1)

\* the calls of ilock among ev, and those made with a lock held
Locks(ev) == {n \in 1..Len(ev) : ev[n][1] = "ilock"}
NestedLocks(ev) == {n \in Locks(ev) : HeldAfter(ev, n - 1) # {}}

\* c is found in directory p before the call or inserted into it by the call
ChildOf(k, r, p, c) ==
  \E e \in DirEntries(k) \cup DirEntries(r) :
    e[1] = p /\ e[3] = c /\ e[2] \notin Dots

\* the n-th call of ev locks a child of a directory whose lock is held
LocksChildUnderParent(k, r, ev, n) ==
  \E p \in HeldAfter(ev, n - 1) : ChildOf(k, r, p, ev[n][2])

(***************************************************************************)
(* C12, as amended.  A handler holds at most two inode locks at once, and  *)
(* the second is always that of a child of the directory whose lock it     *)
(* holds: sys_unlink locks the inode it found in the parent, and create    *)
(* locks the inode it has just allocated, while the parent stays locked.   *)
(* Everywhere else (create on an existing entry, sys_link, sys_open) a     *)
(* lock is acquired only with no lock held.  No handler locks an inode     *)
(* that is already locked, and none locks a parent while holding a child.  *)
(***************************************************************************)
C12_ParentThenChild ==
  [][\A n \in NestedLocks(last'.ev) :
       /\ Cardinality(HeldAfter(last'.ev, n - 1)) = 1
       /\ last'.ev[n][2] \notin HeldAfter(last'.ev, n - 1)
       /\ LocksChildUnderParent(K, K', last'.ev, n)
       /\ \/ last'.op = "unlink"
          \/ inodes[last'.ev[n][2]].type = 0]_vars

\* unlink(a) removed the plain file a: it locked a with the parent locked
C12_Witness ==
  /\ last.op = "unlink"
  /\ last.a = Pa
  /\ last.ret = 0
  /\ NestedLocks(last.ev) # {}
  /\ Resolve(K, Pa) = 0

(***************************************************************************)
(* C12, as the claim states it: no handler acquires the lock of a child    *)
(* inode (one found in or being inserted into a directory) while it holds  *)
(* the lock of that parent directory.                                      *)
(***************************************************************************)
C12_ParentReleasedFirst ==
  [][\A n \in Locks(last'.ev) : ~LocksChildUnderParent(K, K', last'.ev, n)]_vars

\* the calls of ilock and iunlock among ev are paired: no inode is locked
\* twice, and only a locked inode is unlocked
Paired(ev) ==
  \A n \in 1..Len(ev) :
    /\ ev[n][1] = "ilock" => ev[n][2] \notin HeldAfter(ev, n - 1)
    /\ ev[n][1] = "iunlock" => ev[n][2] \in HeldAfter(ev, n - 1)

(***************************************************************************)
(* C13.  At each return of a handler the calling thread holds no inode     *)
(* lock: every ilock the handler made is followed by an iunlock of the     *)
(* same inode before the return, on every returning exit path.             *)
(***************************************************************************)
C13_NoLockAtReturn ==
  Returned =>
    /\ held = {}
    /\ HeldAfter(last.ev, Len(last.ev)) = {}
    /\ Paired(last.ev)

\* open(d, mode) of a directory for writing failed after it locked d
C13_Witness ==
  /\ Returned
  /\ last.op = "open"
  /\ last.a = Pd
  /\ last.n = O_WRONLY
  /\ last.ret = -1
  /\ Locks(last.ev) # {}
  /\ held = {}

\* transactions open after the first n of the calls ev
RECURSIVE OpenAfter(_, _)
OpenAfter(ev, n) ==
  IF n = 0 THEN 0
  ELSE IF ev[n][1] = "begin_trans" THEN OpenAfter(ev, n - 1) + 1
  ELSE IF ev[n][1] = "commit_trans" THEN OpenAfter(ev, n - 1) - 1
  ELSE OpenAfter(ev, n - 1)

(***************************************************************************)
(* C14.  In a symlink call that returns 0, the store of the target and of  *)
(* symlink_flag into the inode, like the updates of create, is made with   *)
(* the handler's transaction open: after begin_trans and before            *)
(* commit_trans.                                                           *)
(***************************************************************************)
C14_StoreInTransaction ==
  (last.op = "symlink" /\ last.ret = 0 /\ ~panicked) =>
    /\ \E n \in 1..Len(last.ev) : last.ev[n][1] = "store"
    /\ \A n \in 1..Len(last.ev) :
         last.ev[n][1] \in {"store", "iupdate"} => OpenAfter(last.ev, n) = 1

\* the lookups of symlink targets among the calls ev of sys_open: the calls
\* of namei after the handler's first call
TargetLookups(ev) == {n \in 2..Len(ev) : ev[n][1] = "namei"}

(***************************************************************************)
(* C15.  In the symlink-following loop of open, each lookup of a symlink's *)
(* target is made with no inode lock held, and the handler never holds     *)
(* two locks at once in the loop.                                          *)
(***************************************************************************)
C15_UnlockBeforeLookup ==
  [][last'.op = "open" =>
       /\ \A n \in TargetLookups(last'.ev) : HeldAfter(last'.ev, n - 1) = {}
       /\ \A n \in 1..Len(last'.ev) :
            (\E m \in TargetLookups(last'.ev) : m < n) =>
              Cardinality(HeldAfter(last'.ev, n)) <= 1]_vars
\* sys_readlink reached state s and k_readlink result kr: the same return
\* value, the same string in the buffer, and both halted or neither
SameReadlink(s, kr) ==
  /\ s.ret = kr.k.ret
  /\ s.ubuf = kr.buf
  /\ s.panic = kr.k.panic

(***************************************************************************)
(* C16.  k_readlink and sys_readlink are equivalent: called in the same    *)
(* state with the same path, buffer size and buffer content, they return   *)
(* the same integer and leave the same string in the buffer.  Both are     *)
(* called from every reachable state, for every path and buffer size.      *)
(***************************************************************************)
C16_KReadlinkEquivalent ==
  \A path \in Paths, bufsiz \in BufSizes :
    ~panicked => SameReadlink(sys_readlink(K, path, bufsiz),
                              k_readlink(K, path, ubuf, bufsiz))

\* the directory slots of state k, and the number of live entries whose
\* inode number is i
AllSlots(k) ==
  UNION {{<<dp, n>> : n \in 1..Len(k.dirs[dp])} : dp \in DOMAIN k.dirs}
LinksTo(k, i) ==
  Cardinality({x \in AllSlots(k) : k.dirs[x[1]][x[2]].inum = i})

\* every inode that is no directory has as many links as entries
LinkCountsMatch(k) ==
  \A i \in DOMAIN k.inodes :
    k.inodes[i].type # T_DIR => k.inodes[i].nlink = LinksTo(k, i)

(***************************************************************************)
(* C17.  After every call that returns, whenever no transaction is open,   *)
(* the link_count of every inode that is no directory equals the number of *)
(* directory entries with its inode number; and a link(old, new) that      *)
(* fails leaves the link_count of the inode old names as it was.           *)
(***************************************************************************)
C17_LinkCount ==
  [][/\ (txn' = 0 /\ ~panicked') => LinkCountsMatch(K')
     /\ (last'.op = "link" /\ last'.ret < 0 /\ Resolve(K, last'.a) # 0) =>
          inodes'[Resolve(K, last'.a)].nlink = inodes[Resolve(K, last'.a)].nlink]_vars

\* link(a, a) failed at the bad: label after it had counted the new link:
\* a has link_count 1 and one entry
C17_Witness ==
  /\ last.op = "link"
  /\ last.a = Pa
  /\ last.b = Pa
  /\ last.ret = -1
  /\ Cardinality({n \in 1..Len(last.ev) : last.ev[n] = <<"iupdate", Resolve(K, Pa)>>}) = 2
  /\ inodes[Resolve(K, Pa)].type = T_FILE
  /\ inodes[Resolve(K, Pa)].nlink = 1
  /\ LinksTo(K, Resolve(K, Pa)) = 1

(***************************************************************************)
(* C18.  After every call that returns, every open file that is allocated  *)
(* has as many references as descriptors that refer to it, and at least    *)
(* one: no open file is allocated that no descriptor refers to.            *)
(***************************************************************************)
C18_FileAccounting ==
  Returned =>
    \A f \in DOMAIN ftable : ftable[f].ref = Cardinality(SlotsOf(K, f))

(***************************************************************************)
(* C19.  open never yields a writable handle on a directory: when open     *)
(* returns a descriptor whose open file refers to a directory inode, the   *)
(* open file is not writable, whether or not the path reached the          *)
(* directory through symlinks.                                             *)
(***************************************************************************)
C19_NoWritableDirectory ==
  [][(/\ last'.op = "open"
      /\ last'.ret >= 0
      /\ ~panicked'
      /\ inodes'[ftable'[ofile'[last'.ret]].ip].type = T_DIR)
     => ~ftable'[ofile'[last'.ret]].writable]_vars

\* the owners of a reference of inode i in state k: the allocated open
\* files over i and the current directory
Owners(k, i) ==
  Cardinality({f \in DOMAIN k.ftable : k.ftable[f].ref > 0 /\ k.ftable[f].ip = i})
  + (IF k.cwd = i THEN 1 ELSE 0)

(***************************************************************************)
(* C20.  Inode reference balance: over every call that returns, the        *)
(* reference count of each inode changes by the number of owners (open     *)
(* files and the current directory) it gained or lost, so every reference  *)
(* a handler obtained from path resolution was released or handed to an    *)
(* owner; readlink, which makes no owner, leaves every count as it was.    *)
(***************************************************************************)
C20_ReferenceBalance ==
  [][~panicked' =>
       \A i \in DOMAIN inodes :
         inodes'[i].type # 0 =>
           inodes'[i].ref - inodes[i].ref = Owners(K', i) - Owners(K, i)]_vars

====
